---- MODULE Spec2Model ----
(***************************************************************************)
(* Model of app.py: the rule-based diagnostic engine (suggest_solutions)   *)
(* and the case store behind the Flask handlers diagnose, dashboard and    *)
(* view_result, over one SQLite database.                                  *)
(*                                                                         *)
(* A Python str is a sequence of one-character strings; a Python value     *)
(* that may be None is a record tagged by "py".                            *)
(***************************************************************************)
EXTENDS Integers, Sequences, FiniteSets, TLC

VARIABLES
    cases,            \* committed rows of table cases, in rowid order
    sqlite_sequence,  \* AUTOINCREMENT high-water mark of table cases
    db_lock,          \* connection holding SQLite's write lock, or NoClient
    pc,               \* per client: position of its POST /diagnose request
    locals,           \* per client: local variables of diagnose()
    lastrowid,        \* per client: cur.lastrowid of its connection
    uploads,          \* file names saved in UPLOAD_FOLDER
    last,             \* the exchange completed by the latest step, or NoExchange
    call              \* rule engine: arguments and result of one call

vars == <<cases, sqlite_sequence, db_lock, pc, locals, lastrowid, uploads, last, call>>

storeVars == <<cases, sqlite_sequence, db_lock, pc, locals, lastrowid, uploads, last>>

-----------------------------------------------------------------------------
(* Python values *)

None == [py |-> "None"]

Str(chars) == [py |-> "str", chars |-> chars]

\* what calling a str method on None raises
AttributeError == [py |-> "AttributeError"]

\* `v or ""` for v a str or None
OrEmpty(v) == IF v = None \/ v.chars = <<>> THEN Str(<<>>) ELSE v

-----------------------------------------------------------------------------
(* str.lower(), str.strip(), `in` on strings *)

Uppers == <<"A", "B", "C", "D", "E", "F", "G", "H", "I", "J", "K", "L", "M",
            "N", "O", "P", "Q", "R", "S", "T", "U", "V", "W", "X", "Y", "Z">>

Lowers == <<"a", "b", "c", "d", "e", "f", "g", "h", "i", "j", "k", "l", "m",
            "n", "o", "p", "q", "r", "s", "t", "u", "v", "w", "x", "y", "z">>

\* the lowercase letter of each uppercase letter
ToLower ==
    [c \in {Uppers[i] : i \in DOMAIN Uppers} |->
        Lowers[CHOOSE i \in DOMAIN Uppers : Uppers[i] = c]]

LowerChar(c) == IF c \in DOMAIN ToLower THEN ToLower[c] ELSE c

\* a comparison that forgets to fold case
Lower_AsTyped(s) == s

Lower(s) == [i \in 1..Len(s) |-> LowerChar(s[i])]

\* v.lower()
MethodLower(v) == IF v.py = "str" THEN Str(Lower(v.chars)) ELSE AttributeError

Whitespace == {" ", "\t", "\n"}

\* the text taken as typed
Strip_AsTyped(s) == s

Strip(s) ==
    LET keep == {i \in 1..Len(s) : s[i] \notin Whitespace}
    IN  IF keep = {} THEN <<>>
        ELSE SubSeq(s, CHOOSE i \in keep : \A j \in keep : i <= j,
                       CHOOSE i \in keep : \A j \in keep : i >= j)

\* needle in hay
Contains(hay, needle) ==
    \E i \in 1..(Len(hay) - Len(needle) + 1) :
        SubSeq(hay, i, i + Len(needle) - 1) = needle

-----------------------------------------------------------------------------
(* suggest_solutions *)

BLACK_SMOKE == <<"b", "l", "a", "c", "k", " ", "s", "m", "o", "k", "e">>
WHITE_SMOKE == <<"w", "h", "i", "t", "e", " ", "s", "m", "o", "k", "e">>
BLUE_SMOKE == <<"b", "l", "u", "e", " ", "s", "m", "o", "k", "e">>
OIL_SMOKE == <<"o", "i", "l", " ", "s", "m", "o", "k", "e">>
NO_START == <<"n", "o", " ", "s", "t", "a", "r", "t">>
WON_T_START == <<"w", "o", "n", "'", "t", " ", "s", "t", "a", "r", "t">>
WONT_START == <<"w", "o", "n", "t", " ", "s", "t", "a", "r", "t">>
KNOCK == <<"k", "n", "o", "c", "k">>
KNOCKING == <<"k", "n", "o", "c", "k", "i", "n", "g">>
METALLIC_NOISE == <<"m", "e", "t", "a", "l", "l", "i", "c", " ", "n", "o", "i", "s", "e">>
OVERHEAT == <<"o", "v", "e", "r", "h", "e", "a", "t">>
OVERHEATING == <<"o", "v", "e", "r", "h", "e", "a", "t", "i", "n", "g">>
HIGH_TEMPERATURE == <<"h", "i", "g", "h", " ", "t", "e", "m", "p", "e", "r", "a", "t", "u", "r", "e">>
LOW_POWER == <<"l", "o", "w", " ", "p", "o", "w", "e", "r">>
NO_POWER == <<"n", "o", " ", "p", "o", "w", "e", "r">>
LOSS_OF_POWER == <<"l", "o", "s", "s", " ", "o", "f", " ", "p", "o", "w", "e", "r">>
MARINE == <<"m", "a", "r", "i", "n", "e">>
SHIP == <<"s", "h", "i", "p">>

\* the appended suggestion texts, each named by its first line
MsgBlackSmoke == "- Possible over-fuelling or restricted air supply."
MsgWhiteSmoke == "- Possible unburned fuel or low compression."
MsgOilSmoke == "- Possible oil burning."
MsgNoStart == "- Engine not starting."
MsgKnocking == "- Abnormal knocking noise."
MsgOverheating == "- Engine overheating."
MsgLowPower == "- Loss of power."
MsgMarine == "- Marine-specific checks."
MsgFallback == "- No clear rule-based match found."

\* the separator of the join
Sep == "\n\n"

\* sep.join(items): the items with sep between neighbours
Join(sep, items) ==
    [i \in 1..(IF items = <<>> THEN 0 ELSE 2 * Len(items) - 1) |->
        IF i % 2 = 1 THEN items[(i + 1) \div 2] ELSE sep]

\* a finding put at the head of the list instead of its end
AppendIf_AtHead(suggestions, cond, msg) ==
    IF cond THEN <<msg>> \o suggestions ELSE suggestions

\* `if cond: suggestions.append(msg)`
AppendIf(suggestions, cond, msg) ==
    IF cond THEN Append(suggestions, msg) ELSE suggestions

\* the fallback appended whatever was found
NotSuggestions_Always(suggestions) == TRUE

\* the fallback never appended
NotSuggestions_Never(suggestions) == FALSE

\* `not suggestions`
NotSuggestions(suggestions) == suggestions = <<>>

suggest_solutions(engine_type, symptoms) ==
    LET lowered == MethodLower(OrEmpty(symptoms))
        loweredEngine == MethodLower(OrEmpty(engine_type))
        text == lowered.chars
        engine == loweredEngine.chars
        s1 == AppendIf(<<>>, Contains(text, BLACK_SMOKE), MsgBlackSmoke)
        s2 == AppendIf(s1, Contains(text, WHITE_SMOKE), MsgWhiteSmoke)
        s3 == AppendIf(s2, Contains(text, BLUE_SMOKE) \/ Contains(text, OIL_SMOKE),
                       MsgOilSmoke)
        s4 == AppendIf(s3, Contains(text, NO_START) \/ Contains(text, WON_T_START)
                             \/ Contains(text, WONT_START), MsgNoStart)
        s5 == AppendIf(s4, Contains(text, KNOCK) \/ Contains(text, KNOCKING)
                             \/ Contains(text, METALLIC_NOISE), MsgKnocking)
        s6 == AppendIf(s5, Contains(text, OVERHEAT) \/ Contains(text, OVERHEATING)
                             \/ Contains(text, HIGH_TEMPERATURE), MsgOverheating)
        s7 == AppendIf(s6, Contains(text, LOW_POWER) \/ Contains(text, NO_POWER)
                             \/ Contains(text, LOSS_OF_POWER), MsgLowPower)
        s8 == AppendIf(s7, Contains(engine, MARINE) \/ Contains(engine, SHIP), MsgMarine)
        s9 == AppendIf(s8, NotSuggestions(s8), MsgFallback)
    IN  IF AttributeError \in {lowered, loweredEngine} THEN AttributeError
        ELSE Str(Join(Sep, s9))

-----------------------------------------------------------------------------
(* Requests, sessions and responses *)

Users == {1, 2}

Clients == {"c0", "c1", "c2"}

NoClient == "none"

\* the Flask session each browser sends: c1 and c2 are logged in, c0 is not
Session(c) ==
    IF c = "c1" THEN [user_id |-> 1]
    ELSE IF c = "c2" THEN [user_id |-> 2]
    ELSE [c0 \in {} |-> 0]

\* `"user_id" in session`
LoggedIn(session) == "user_id" \in DOMAIN session

Redirect(endpoint, values, message, category) ==
    [type |-> "redirect", endpoint |-> endpoint, values |-> values,
     flash |-> <<message, category>>]

Render(template, context) ==
    [type |-> "render", template |-> template, context |-> context]

NoValues == [v \in {} |-> 0]

\* login_required turning the request away
LoginRedirect == Redirect("login", NoValues, "Please log in first.", "warning")

\* sqlite3.OperationalError("database is locked") leaving the handler
ServerError == [type |-> "error", exception |-> "OperationalError"]

NoExchange == [route |-> "none"]

Exchange(c, route, request, response) ==
    [route |-> route, client |-> c, request |-> request, response |-> response]

\* request.form.get(name, "")
FormGet(form, name) == IF name \in DOMAIN form THEN form[name] ELSE <<>>

-----------------------------------------------------------------------------
(* Uploaded file names *)

ALLOWED_EXTENSIONS ==
    {<<"p", "n", "g">>, <<"j", "p", "g">>, <<"j", "p", "e", "g">>, <<"g", "i", "f">>}

\* index of the last "." of a name that has one
LastDot(s) == CHOOSE i \in 1..Len(s) : s[i] = "." /\ \A j \in (i + 1)..Len(s) : s[j] # "."

allowed_file(filename) ==
    /\ Contains(filename, <<".">>)
    /\ Lower(SubSeq(filename, LastDot(filename) + 1, Len(filename))) \in ALLOWED_EXTENSIONS

SafeChars ==
    {Uppers[i] : i \in DOMAIN Uppers} \cup {Lowers[i] : i \in DOMAIN Lowers}
        \cup {"0", "1", "2", "3", "4", "5", "6", "7", "8", "9", "_", ".", "-"}

\* werkzeug's secure_filename on a name without separators or blanks: the
\* characters outside [A-Za-z0-9_.-] are dropped
secure_filename(filename) == SelectSeq(filename, LAMBDA ch : ch \in SafeChars)

\* os.path.splitext on a name that does not start with "."
Splitext(filename) ==
    IF Contains(filename, <<".">>)
    THEN <<SubSeq(filename, 1, LastDot(filename) - 1),
           SubSeq(filename, LastDot(filename), Len(filename))>>
    ELSE <<filename, <<>>>>

DigitChars == <<"0", "1", "2", "3", "4", "5", "6", "7", "8", "9">>

\* str(n) for n >= 0
RECURSIVE Digits(_)
Digits(n) ==
    IF n < 10 THEN <<DigitChars[n + 1]>>
    ELSE Digits(n \div 10) \o <<DigitChars[(n % 10) + 1]>>

\* f"{name}_{int(datetime.now().timestamp())}{ext}"
StampedName(filename, now) ==
    LET parts == Splitext(secure_filename(filename))
    IN  parts[1] \o <<"_">> \o Digits(now) \o parts[2]

\* datetime.utcnow().isoformat(timespec="seconds"), as the second it names
IsoFormat(now) == [py |-> "str", iso_second |-> now]

-----------------------------------------------------------------------------
(* Table cases *)

\* the INSERT forgetting the rows already there
InsertRow_Overwrite(rows, row) == <<row>>

\* INSERT INTO cases
InsertRow(rows, row) == Append(rows, row)

SetMax(S) == CHOOSE x \in S : \A y \in S : y <= x

\* INTEGER PRIMARY KEY AUTOINCREMENT: one more than the largest rowid ever used
NextRowid(rows, seq) == SetMax({seq} \cup {rows[i].id : i \in DOMAIN rows}) + 1

\* the columns both SELECTs name
Columns(row) ==
    [id |-> row.id, engine_type |-> row.engine_type, symptoms |-> row.symptoms,
     image_filename |-> row.image_filename, diagnosis |-> row.diagnosis,
     created_at |-> row.created_at]

\* a lookup by id alone
SelectCaseByIdAndOwner_IdOnly(rows, case_id, user_id) ==
    SelectSeq(rows, LAMBDA r : r.id = case_id)

\* WHERE id = ? AND user_id = ?
SelectCaseByIdAndOwner(rows, case_id, user_id) ==
    SelectSeq(rows, LAMBDA r : r.id = case_id /\ r.user_id = user_id)

RemoveAt(seq, i) == SubSeq(seq, 1, i - 1) \o SubSeq(seq, i + 1, Len(seq))

\* the rows left in insertion order
OrderByIdDesc_Unordered(rows) == rows

\* ORDER BY id DESC
RECURSIVE OrderByIdDesc(_)
OrderByIdDesc(rows) ==
    IF rows = <<>> THEN <<>>
    ELSE LET top == CHOOSE i \in DOMAIN rows : \A j \in DOMAIN rows : rows[j].id <= rows[i].id
         IN  <<rows[top]>> \o OrderByIdDesc(RemoveAt(rows, top))

\* WHERE user_id = ? ORDER BY id DESC
SelectCasesByOwner(rows, user_id) ==
    OrderByIdDesc(SelectSeq(rows, LAMBDA r : r.user_id = user_id))

\* cur.fetchone()
FetchOne(rows) == IF rows = <<>> THEN None ELSE Columns(rows[1])

\* cur.fetchall()
FetchAll(rows) == [i \in 1..Len(rows) |-> Columns(rows[i])]

-----------------------------------------------------------------------------
(* diagnose(): from the request to the arguments of the INSERT *)

\* the check left out
NotSymptoms_Skipped(symptoms) == FALSE

\* `not symptoms`
NotSymptoms(symptoms) == symptoms = <<>>

\* `image_file and image_file.filename`
HasImage(files) == "image" \in DOMAIN files /\ files["image"] # <<>>

\* what the handler has done when it reaches the INSERT, or the response it
\* has returned before
Prepare(request, session, now) ==
    LET engine_type == Strip(FormGet(request.form, "engine_type"))
        symptoms == Strip(FormGet(request.form, "symptoms"))
        image == HasImage(request.files)
        filename == StampedName(request.files["image"], now)
    IN  IF NotSymptoms(symptoms)
        THEN [response |-> Redirect("diagnose", NoValues,
                                    "Please describe the symptoms.", "danger"),
              saved |-> {}, locals |-> None]
        ELSE IF image /\ ~allowed_file(request.files["image"])
        THEN [response |-> Redirect("diagnose", NoValues,
                                    "Invalid image format. Use png/jpg/jpeg/gif.", "danger"),
              saved |-> {}, locals |-> None]
        ELSE [response |-> None,
              saved |-> IF image THEN {Str(filename)} ELSE {},
              locals |-> [request |-> request,
                          user_id |-> session.user_id,
                          engine_type |-> Str(engine_type),
                          symptoms |-> Str(symptoms),
                          image_filename |-> IF image THEN Str(filename) ELSE None,
                          diagnosis_text |-> suggest_solutions(Str(engine_type), Str(symptoms)),
                          created_at |-> IsoFormat(now)]]

\* the row the INSERT writes, with the rowid SQLite gives it
Row(id, l) ==
    [id |-> id, user_id |-> l.user_id, engine_type |-> l.engine_type,
     symptoms |-> l.symptoms, image_filename |-> l.image_filename,
     diagnosis |-> l.diagnosis_text, created_at |-> l.created_at]

-----------------------------------------------------------------------------
(* The requests the clients send *)

MaxCases == 4

\* every request of a run falls in this second of the clock
Instants == {1700000000}

NoFiles == [f \in {} |-> <<>>]

PostedForms ==
    { \* padded symptoms and engine type, no file
      [method |-> "POST",
       form |-> [engine_type |-> <<" ", "M", "a", "r", "i", "n", "e", " ">>,
                 symptoms |-> <<" ", " ", "K", "n", "o", "c", "k", "\n">>],
       files |-> NoFiles],
      \* no engine type, a picture
      [method |-> "POST",
       form |-> [symptoms |-> <<"B", "l", "a", "c", "k", " ", "S", "m", "o", "k", "e">>],
       files |-> [image |-> <<"e", ".", "P", "N", "G">>]],
      \* blank symptoms
      [method |-> "POST",
       form |-> [engine_type |-> <<"S", "H", "I", "P">>, symptoms |-> <<" ", "\t">>],
       files |-> NoFiles],
      \* no symptoms field, a picture
      [method |-> "POST",
       form |-> [engine_type |-> <<>>],
       files |-> [image |-> <<"e", ".", "P", "N", "G">>]],
      \* a file that is no picture
      [method |-> "POST",
       form |-> [engine_type |-> <<>>, symptoms |-> <<"K", "n", "o", "c", "k">>],
       files |-> [image |-> <<"e", ".", "e", "x", "e">>]] }

GetForm == [method |-> "GET"]

InFlight == {c \in Clients : pc[c] # "idle"}

-----------------------------------------------------------------------------
(* The handlers *)

StoreInit ==
    /\ cases = <<>>
    /\ sqlite_sequence = 0
    /\ db_lock = NoClient
    /\ pc = [c \in Clients |-> "idle"]
    /\ locals = [c \in Clients |-> None]
    /\ lastrowid = [c \in Clients |-> 0]
    /\ uploads = {}
    /\ last = NoExchange

\* a request of a browser that is not logged in, to any of the three routes
TurnedAway(c) ==
    /\ pc[c] = "idle"
    /\ ~LoggedIn(Session(c))
    /\ \E route \in {"dashboard", "diagnose", "view_result"} :
          last' = Exchange(c, route, GetForm, LoginRedirect)
    /\ UNCHANGED <<cases, sqlite_sequence, db_lock, pc, locals, lastrowid, uploads, call>>

\* GET /diagnose
DiagnoseForm(c) ==
    /\ pc[c] = "idle"
    /\ LoggedIn(Session(c))
    /\ last' = Exchange(c, "diagnose", GetForm, Render("diagnose.html", NoValues))
    /\ UNCHANGED <<cases, sqlite_sequence, db_lock, pc, locals, lastrowid, uploads, call>>

\* POST /diagnose, up to the INSERT
Diagnose(c) ==
    /\ pc[c] = "idle"
    /\ LoggedIn(Session(c))
    /\ \E request \in PostedForms, now \in Instants :
          LET done == Prepare(request, Session(c), now)
          IN  IF done.locals = None
              THEN /\ last' = Exchange(c, "diagnose", request, done.response)
                   /\ UNCHANGED <<pc, locals, uploads>>
              ELSE /\ Len(cases) + Cardinality(InFlight) < MaxCases
                   /\ uploads' = uploads \cup done.saved
                   /\ locals' = [locals EXCEPT ![c] = done.locals]
                   /\ pc' = [pc EXCEPT ![c] = "execute"]
                   /\ last' = NoExchange
    /\ UNCHANGED <<cases, sqlite_sequence, db_lock, lastrowid, call>>

\* a writer that does not wait for the lock
CanWrite_Always(c) == TRUE

\* SQLite lets one connection write at a time
CanWrite(c) == db_lock = NoClient

\* cur.execute(INSERT): the write lock is taken and the rowid assigned
Execute(c) ==
    /\ pc[c] = "execute"
    /\ CanWrite(c)
    /\ db_lock' = c
    /\ lastrowid' = [lastrowid EXCEPT ![c] = NextRowid(cases, sqlite_sequence)]
    /\ pc' = [pc EXCEPT ![c] = "commit"]
    /\ last' = NoExchange
    /\ UNCHANGED <<cases, sqlite_sequence, locals, uploads, call>>

\* cur.execute(INSERT) giving up on a locked database
ExecuteLocked(c) ==
    /\ pc[c] = "execute"
    /\ ~CanWrite(c)
    /\ pc' = [pc EXCEPT ![c] = "idle"]
    /\ locals' = [locals EXCEPT ![c] = None]
    /\ last' = Exchange(c, "diagnose", locals[c].request, ServerError)
    /\ UNCHANGED <<cases, sqlite_sequence, db_lock, lastrowid, uploads, call>>

\* conn.commit()
Commit(c) ==
    /\ pc[c] = "commit"
    /\ cases' = InsertRow(cases, Row(lastrowid[c], locals[c]))
    /\ sqlite_sequence' = SetMax({sqlite_sequence, lastrowid[c]})
    /\ db_lock' = NoClient
    /\ pc' = [pc EXCEPT ![c] = "redirect"]
    /\ last' = NoExchange
    /\ UNCHANGED <<locals, lastrowid, uploads, call>>

\* the newest id of the table instead of the connection's own
CaseId_Newest(c) == sqlite_sequence

\* case_id = cur.lastrowid
CaseId(c) == lastrowid[c]

\* redirect(url_for("view_result", case_id=case_id))
Finish(c) ==
    /\ pc[c] = "redirect"
    /\ last' = Exchange(c, "diagnose", locals[c].request,
                        [type |-> "redirect", endpoint |-> "view_result",
                         values |-> [case_id |-> CaseId(c)]])
    /\ pc' = [pc EXCEPT ![c] = "idle"]
    /\ locals' = [locals EXCEPT ![c] = None]
    /\ UNCHANGED <<cases, sqlite_sequence, db_lock, lastrowid, uploads, call>>

\* GET /dashboard
Dashboard(c) ==
    /\ pc[c] = "idle"
    /\ LoggedIn(Session(c))
    /\ last' = Exchange(c, "dashboard", GetForm,
                        Render("dashboard.html",
                               [cases |-> FetchAll(SelectCasesByOwner(cases, Session(c).user_id))]))
    /\ UNCHANGED <<cases, sqlite_sequence, db_lock, pc, locals, lastrowid, uploads, call>>

\* the outcome of view_result when the SELECT finds no row
CaseNotFound == Redirect("dashboard", NoValues, "Case not found.", "danger")

\* GET /result/<case_id>
ViewResult(c) ==
    /\ pc[c] = "idle"
    /\ LoggedIn(Session(c))
    /\ \E case_id \in 1..(MaxCases + 1) :
          LET case == FetchOne(SelectCaseByIdAndOwner(cases, case_id, Session(c).user_id))
          IN  last' = Exchange(c, "view_result", [method |-> "GET", case_id |-> case_id],
                               IF case = None THEN CaseNotFound
                               ELSE Render("result.html", [case |-> case]))
    /\ UNCHANGED <<cases, sqlite_sequence, db_lock, pc, locals, lastrowid, uploads, call>>

NoCall == [engine_type |-> None, symptoms |-> None, result |-> None]

Init == StoreInit /\ call = NoCall

Next ==
    \E c \in Clients :
        \/ TurnedAway(c)
        \/ DiagnoseForm(c)
        \/ Diagnose(c)
        \/ Execute(c)
        \/ ExecuteLocked(c)
        \/ Commit(c)
        \/ Finish(c)
        \/ Dashboard(c)
        \/ ViewResult(c)

Spec == Init /\ [][Next]_vars

-----------------------------------------------------------------------------
(* The rule engine on its own: one call of suggest_solutions on arguments  *)
(* built from fragments of text.                                           *)

MaxFrags == 2

SymptomFrags ==
    { <<"B", "l", "a", "c", "k", " ", "S", "m", "o", "k", "e">>,
      <<"w", "h", "i", "t", "e", " ", "s", "m", "o", "k", "e">>,
      <<"B", "L", "U", "E", " ", "S", "M", "O", "K", "E">>,
      <<"O", "i", "l", " ", "S", "m", "o", "k", "e">>,
      <<"N", "o", " ", "S", "t", "a", "r", "t">>,
      <<"W", "o", "n", "'", "t", " ", "S", "t", "a", "r", "t">>,
      <<"W", "O", "N", "T", " ", "S", "T", "A", "R", "T">>,
      <<"K", "n", "o", "c", "k">>,
      <<"i", "n", "g">>,
      <<"M", "e", "t", "a", "l", "l", "i", "c", " ", "N", "o", "i", "s", "e">>,
      <<"O", "V", "E", "R", "H", "E", "A", "T">>,
      <<"H", "i", "g", "h", " ", "T", "e", "m", "p", "e", "r", "a", "t", "u", "r", "e">>,
      <<"L", "o", "w", " ", "p", "o", "w", "e", "r">>,
      <<"N", "O", " ", "P", "O", "W", "E", "R">>,
      <<"L", "o", "s", "s", " ", "O", "f", " ", "P", "o", "w", "e", "r">>,
      <<"M", "a", "r", "i", "n", "e">>,
      <<" ">> }

EngineTypes ==
    { None,
      Str(<<>>),
      Str(<<"M", "a", "r", "i", "n", "e", " ", "D", "i", "e", "s", "e", "l">>),
      Str(<<"C", "r", "u", "i", "s", "e", " ", "S", "H", "I", "P">>),
      Str(<<"K", "n", "o", "c", "k", "i", "n", "g", " ", "C", "a", "r">>) }

\* the texts made of at most n fragments
RECURSIVE Texts(_)
Texts(n) ==
    IF n = 0 THEN {<<>>}
    ELSE LET shorter == Texts(n - 1)
         IN  shorter \cup {t \o f : t \in shorter, f \in SymptomFrags}

SymptomArgs == {None} \cup {Str(t) : t \in Texts(MaxFrags)}

EngineInit ==
    /\ StoreInit
    /\ call \in [engine_type : EngineTypes, symptoms : SymptomArgs, result : {None}]

CallSuggest ==
    /\ call.result = None
    /\ call' = [call EXCEPT
                  !.result = suggest_solutions(call.engine_type, call.symptoms)]
    /\ UNCHANGED storeVars

EngineNext == CallSuggest

SpecEngine == EngineInit /\ [][EngineNext]_vars

-----------------------------------------------------------------------------
(* The rule table of the design and how a report reads, stated apart from  *)
(* the code above: a trigger occurs in a text when some window of the text *)
(* spells it, letter by letter, in either case.                            *)

CasePairs == {<<Uppers[i], Lowers[i]>> : i \in DOMAIN Uppers}

SameLetter(a, b) == a = b \/ <<a, b>> \in CasePairs \/ <<b, a>> \in CasePairs

Occurs(s, trigger) ==
    \E i \in 1..(Len(s) - Len(trigger) + 1) :
        \A k \in 1..Len(trigger) : SameLetter(s[i + k - 1], trigger[k])

TextOf(v) == IF v = None THEN <<>> ELSE v.chars

RuleTable ==
    << [finding |-> MsgBlackSmoke, field |-> "symptoms", triggers |-> {BLACK_SMOKE}],
       [finding |-> MsgWhiteSmoke, field |-> "symptoms", triggers |-> {WHITE_SMOKE}],
       [finding |-> MsgOilSmoke, field |-> "symptoms", triggers |-> {BLUE_SMOKE, OIL_SMOKE}],
       [finding |-> MsgNoStart, field |-> "symptoms",
        triggers |-> {NO_START, WON_T_START, WONT_START}],
       [finding |-> MsgKnocking, field |-> "symptoms",
        triggers |-> {KNOCK, KNOCKING, METALLIC_NOISE}],
       [finding |-> MsgOverheating, field |-> "symptoms",
        triggers |-> {OVERHEAT, OVERHEATING, HIGH_TEMPERATURE}],
       [finding |-> MsgLowPower, field |-> "symptoms",
        triggers |-> {LOW_POWER, NO_POWER, LOSS_OF_POWER}],
       [finding |-> MsgMarine, field |-> "engine_type", triggers |-> {MARINE, SHIP}] >>

Fires(rule, engine_type, symptoms) ==
    \E t \in rule.triggers :
        Occurs(TextOf(IF rule.field = "symptoms" THEN symptoms ELSE engine_type), t)

\* the findings of the firing categories, in table order
FiringFindings(engine_type, symptoms) ==
    LET firing == SelectSeq(RuleTable, LAMBDA r : Fires(r, engine_type, symptoms))
    IN  [i \in 1..Len(firing) |-> firing[i].finding]

\* a report is findings separated by Sep
WellJoined(report) ==
    /\ report # <<>> => Len(report) % 2 = 1
    /\ \A i \in 1..Len(report) : (report[i] = Sep) <=> (i % 2 = 0)

Findings(report) == SelectSeq(report, LAMBDA x : x # Sep)

Count(seq, x) == Cardinality({i \in 1..Len(seq) : seq[i] = x})

Called == call.result # None

Report == Findings(call.result.chars)

CalledWith(engine_type, symptoms) ==
    /\ Called
    /\ call.engine_type = engine_type
    /\ call.symptoms = symptoms

MarineDiesel == Str(<<"M", "a", "r", "i", "n", "e", " ", "D", "i", "e", "s", "e", "l">>)

\* C6 as claimed: whenever the symptoms contain both "overheat" and "knock",
\* the report is exactly two findings, overheating before knocking.
C6_AsClaimed ==
    (Called /\ Occurs(TextOf(call.symptoms), OVERHEAT)
            /\ Occurs(TextOf(call.symptoms), KNOCK))
    => Report = <<MsgOverheating, MsgKnocking>>

\* C6 amended: whenever the symptoms contain both "overheat" and "knock", the
\* report holds the knocking finding and the overheating finding once each,
\* knocking before overheating, and it is exactly these two when no other
\* category fires.
C6_KnockThenOverheat ==
    (Called /\ Occurs(TextOf(call.symptoms), OVERHEAT)
            /\ Occurs(TextOf(call.symptoms), KNOCK))
    => /\ Count(Report, MsgKnocking) = 1
       /\ Count(Report, MsgOverheating) = 1
       /\ \A i, j \in 1..Len(Report) :
            (Report[i] = MsgKnocking /\ Report[j] = MsgOverheating) => i < j
       /\ (\A k \in DOMAIN RuleTable :
              Fires(RuleTable[k], call.engine_type, call.symptoms)
                 => RuleTable[k].finding \in {MsgKnocking, MsgOverheating})
          => Report = <<MsgKnocking, MsgOverheating>>

\* the call ("", "OVERHEATKnock") has returned
C6_Witness ==
    CalledWith(Str(<<>>), Str(<<"O", "V", "E", "R", "H", "E", "A", "T",
                               "K", "n", "o", "c", "k">>))

\* C7 as claimed: diagnose("Marine Diesel", "") returns the marine finding
\* followed by the fallback.
C7_AsClaimed ==
    CalledWith(MarineDiesel, Str(<<>>)) => Report = <<MsgMarine, MsgFallback>>

\* C7 amended: diagnose("Marine Diesel", "") returns exactly one finding, the
\* marine-specific guidance, and no fallback.
C7_MarineOnly ==
    CalledWith(MarineDiesel, Str(<<>>)) => Report = <<MsgMarine>>

C7_Witness == CalledWith(MarineDiesel, Str(<<>>))

\* C8: every call returns (also on empty and absent arguments) a non-empty
\* report; when no category fires the report is the fallback alone, and when
\* some category fires the fallback is not in it.
C8_FallbackIffNothingFires ==
    Called =>
        /\ call.result.py = "str"
        /\ Report # <<>>
        /\ WellJoined(call.result.chars)
        /\ IF FiringFindings(call.engine_type, call.symptoms) = <<>>
           THEN Report = <<MsgFallback>>
           ELSE Count(Report, MsgFallback) = 0

\* the call ("", "") has returned the fallback alone
C8_Witness == CalledWith(Str(<<>>), Str(<<>>)) /\ Report = <<MsgFallback>>

\* C9: the report holds the finding of each firing category once, of no other
\* category, in table order, whatever the case, place and number of the
\* triggers; the marine finding is decided by engine_type alone.
C9_FiringInTableOrder ==
    Called =>
        /\ WellJoined(call.result.chars)
        /\ SelectSeq(Report, LAMBDA x : x # MsgFallback)
              = FiringFindings(call.engine_type, call.symptoms)
        /\ (Count(Report, MsgMarine) = 1)
              <=> (Occurs(TextOf(call.engine_type), MARINE)
                     \/ Occurs(TextOf(call.engine_type), SHIP))

\* ("Marine Diesel", "OVERHEATKnock") has returned knocking, overheating, marine
C9_Witness ==
    /\ CalledWith(MarineDiesel, Str(<<"O", "V", "E", "R", "H", "E", "A", "T",
                                     "K", "n", "o", "c", "k">>))
    /\ Report = <<MsgKnocking, MsgOverheating, MsgMarine>>

-----------------------------------------------------------------------------
(* Claims about the case store *)

\* the user a logged-in client acts for
UserOf(c) == Session(c).user_id

\* the latest step answered a request of a logged-in client to this route
Answered(route) == last.route = route /\ LoggedIn(Session(last.client))

Blank(s) == \A i \in 1..Len(s) : s[i] \in Whitespace

SymptomsRejected ==
    Redirect("diagnose", NoValues, "Please describe the symptoms.", "danger")

ImageRejected ==
    Redirect("diagnose", NoValues, "Invalid image format. Use png/jpg/jpeg/gif.", "danger")

\* an exchange that posted blank symptoms
BlankSubmission(e) ==
    /\ e.route = "diagnose"
    /\ LoggedIn(Session(e.client))
    /\ e.request.method = "POST"
    /\ Blank(FormGet(e.request.form, "symptoms"))

\* C1: view_result shows a case only when a row has the asked id and the
\* caller as owner, and then that row; for an id of another owner and for an
\* id of no row it gives one and the same answer.
C1_GetCaseOnlyForOwner ==
    Answered("view_result") =>
        LET mine == {i \in DOMAIN cases :
                        /\ cases[i].id = last.request.case_id
                        /\ cases[i].user_id = UserOf(last.client)}
        IN  IF mine = {}
            THEN last.response = CaseNotFound
            ELSE \E i \in mine :
                    last.response = Render("result.html", [case |-> Columns(cases[i])])

\* a client asked for a case of the other user and got "not found"
C1_Witness ==
    /\ Answered("view_result")
    /\ last.response = CaseNotFound
    /\ \E i \in DOMAIN cases :
          /\ cases[i].id = last.request.case_id
          /\ cases[i].user_id # UserOf(last.client)

\* C2: a submission whose symptoms are empty, absent or only whitespace is
\* answered by the validation error and leaves the table, the next rowid and
\* every request in flight as they were.
C2_BlankSymptomsRejected ==
    [][BlankSubmission(last') =>
          /\ last'.response = SymptomsRejected
          /\ cases' = cases
          /\ sqlite_sequence' = sqlite_sequence
          /\ pc' = pc
          /\ locals' = locals
          /\ uploads' = uploads]_vars

\* blank symptoms were rejected while the table held a case
C2_Witness ==
    /\ BlankSubmission(last)
    /\ last.response = SymptomsRejected
    /\ cases # <<>>

\* C3: the dashboard lists exactly the caller's cases, each once, by strictly
\* descending id, and no case of another owner.
C3_ListIsOwnersDescending ==
    Answered("dashboard") =>
        LET listed == last.response.context.cases
            own == {i \in DOMAIN cases : cases[i].user_id = UserOf(last.client)}
        IN  /\ Len(listed) = Cardinality(own)
            /\ \A i \in own : \E k \in DOMAIN listed : listed[k] = Columns(cases[i])
            /\ \A k \in DOMAIN listed : \E i \in own : listed[k] = Columns(cases[i])
            /\ \A k \in 1..(Len(listed) - 1) : listed[k].id > listed[k + 1].id

\* a dashboard listing three cases while the other user has one too
C3_Witness ==
    /\ Answered("dashboard")
    /\ Len(last.response.context.cases) = 3
    /\ \E i \in DOMAIN cases : cases[i].user_id # UserOf(last.client)

\* C4: under every interleaving the stored ids are distinct and grow in the
\* order of storing, and the id a submitter is redirected to is the id of
\* the row holding the submitter's own case.
C4_IdsDistinctIncreasing ==
    /\ \A i, j \in DOMAIN cases : i < j => cases[i].id < cases[j].id
    /\ (Answered("diagnose") /\ last.response.type = "redirect"
           /\ last.response.endpoint = "view_result")
       => \E i \in DOMAIN cases :
             /\ cases[i].id = last.response.values.case_id
             /\ cases[i].user_id = UserOf(last.client)
             /\ cases[i].symptoms = Str(Strip(FormGet(last.request.form, "symptoms")))
             /\ cases[i].engine_type = Str(Strip(FormGet(last.request.form, "engine_type")))

\* a submitter is redirected to its case after the other user's later
\* submission was stored
C4_Witness ==
    /\ Answered("diagnose")
    /\ last.response.type = "redirect"
    /\ last.response.endpoint = "view_result"
    /\ \E i, j \in DOMAIN cases :
          /\ i < j
          /\ cases[i].id = last.response.values.case_id
          /\ cases[j].user_id # cases[i].user_id

\* C5: no step changes or removes a stored case; the table changes only by
\* the commit of a submission, which adds one row.
C5_AppendOnly ==
    [][/\ Len(cases') \in {Len(cases), Len(cases) + 1}
       /\ \A i \in DOMAIN cases : cases'[i] = cases[i]
       /\ cases' # cases => \E c \in Clients : pc[c] = "commit" /\ pc'[c] = "redirect"]_vars

\* a rejected submission with two cases stored
C5_Witness ==
    /\ last.route = "diagnose"
    /\ last.response = ImageRejected
    /\ Len(cases) >= 2

\* C10: every stored case has an owner, symptoms that are non-empty without
\* blanks at either end, and the report of the rule engine on its own stored
\* engine type and symptoms.
C10_StoredCasesWellFormed ==
    \A i \in DOMAIN cases :
        LET row == cases[i]
        IN  /\ row.user_id \in Users
            /\ row.symptoms.py = "str"
            /\ row.symptoms.chars # <<>>
            /\ Head(row.symptoms.chars) \notin Whitespace
            /\ row.symptoms.chars[Len(row.symptoms.chars)] \notin Whitespace
            /\ row.diagnosis = suggest_solutions(row.engine_type, row.symptoms)

\* the case submitted with blanks around its fields is stored trimmed
C10_Witness ==
    \E i \in DOMAIN cases :
        /\ cases[i].symptoms = Str(<<"K", "n", "o", "c", "k">>)
        /\ cases[i].engine_type = Str(<<"M", "a", "r", "i", "n", "e">>)
        /\ Findings(cases[i].diagnosis.chars) = <<MsgKnocking, MsgMarine>>

====
